---- MODULE Spec2Model ----
(***************************************************************************)
(* Model of the match-record analysis page (pages/01): one rerun of the    *)
(* Streamlit script loads the record table, applies the season and         *)
(* environment filters and renders either the all-archetype overview or    *)
(* the focus report of the selected archetype / type.                      *)
(*                                                                         *)
(* Encoding of values:                                                     *)
(*   - Python None / NaN / NaT is the empty tuple <<>> (None) for rates    *)
(*     and means, and 0 for an absent finish_turn or date;                 *)
(*   - a rate wins / games * 100 is the exact pair <<wins, games>>;        *)
(*   - a mean of finish turns is the exact pair <<sum, count>>;            *)
(*   - the strings '先攻' / '後攻' / '勝ち' / '負け' are FIRST / SECOND /  *)
(*     WIN / LOSS.                                                         *)
(***************************************************************************)
EXTENDS Integers, Sequences, FiniteSets, TLC

\* ------------------------------------------------------------------------
\* Bounds of the model
\* ------------------------------------------------------------------------
MaxRecords == 2

\* ------------------------------------------------------------------------
\* Program constants
\* ------------------------------------------------------------------------
SELECT_PLACEHOLDER == "--- select ---"
ALL_TYPES_PLACEHOLDER == "AllTypes"
FIRST == "FIRST"
SECOND == "SECOND"
WIN == "WIN"
LOSS == "LOSS"
None == <<>>

\* ------------------------------------------------------------------------
\* Strings that occur in the model, with Python's ordering and str.lower()
\* ------------------------------------------------------------------------
DeckNames == {"Alpha", "Beta"}
TypeNames == {"Blue", "Red"}
SeasonNames == {"S1", "S2"}
EnvNames == {"E1"}

\* rank of a string in Python's code-point order (upper case before lower)
StrRank(s) ==
  CASE s = " "          -> 0
    [] s = "2024-12-31" -> 1
    [] s = "2025-01-01" -> 2
    [] s = "Alpha"      -> 3
    [] s = "Beta"       -> 4
    [] s = "Blue"       -> 5
    [] s = "E1"         -> 6
    [] s = "E2"         -> 7
    [] s = "Gamma"      -> 8
    [] s = "Red"        -> 9
    [] s = "S1"         -> 10
    [] s = "S2"         -> 11
    [] s = "nan"        -> 12
    [] OTHER            -> 13

StrLess(a, b) == StrRank(a) < StrRank(b)

\* str.lower(): only the spellings of 'nan' matter to the code
Lower(s) == IF s \in {"nan", "NaN", "NAN"} THEN "nan" ELSE s

\* ------------------------------------------------------------------------
\* Sequence helpers (pandas row selection, len, sorted)
\* ------------------------------------------------------------------------
Range(s) == {s[i] : i \in 1..Len(s)}

RECURSIVE SeqSum(_)
SeqSum(s) == IF s = <<>> THEN 0 ELSE Head(s) + SeqSum(Tail(s))

\* drop_duplicates(): keep the first occurrence of every value
RECURSIVE DropDuplicates(_)
DropDuplicates(s) ==
  IF s = <<>> THEN <<>>
  ELSE LET init == DropDuplicates(SubSeq(s, 1, Len(s) - 1))
           last == s[Len(s)]
       IN IF last \in Range(init) THEN init ELSE Append(init, last)

\* sorted(set of strings)
RECURSIVE SortedStrings(_)
SortedStrings(S) ==
  IF S = {} THEN <<>>
  ELSE LET m == CHOOSE x \in S : \A y \in S : StrRank(x) <= StrRank(y)
       IN <<m>> \o SortedStrings(S \ {m})

\* sorted(set of (deck, type) tuples): lexicographic
TupleLeq(a, b) ==
  \/ StrLess(a[1], b[1])
  \/ a[1] = b[1] /\ StrRank(a[2]) <= StrRank(b[2])

RECURSIVE SortedTuples(_)
SortedTuples(S) ==
  IF S = {} THEN <<>>
  ELSE LET m == CHOOSE x \in S : \A y \in S : TupleLeq(x, y)
       IN <<m>> \o SortedTuples(S \ {m})

\* ------------------------------------------------------------------------
\* Exact arithmetic on rates and means
\* ------------------------------------------------------------------------
\* variant: an empty denominator gives 0.0 instead of None
Rate_zero_when_empty(wins, games) == IF games > 0 THEN <<wins, games>> ELSE <<0, 1>>

\* (a / b * 100) if b > 0 else None
Rate(wins, games) == IF games > 0 THEN <<wins, games>> ELSE None

\* variant: the mean is taken of an empty list as well (NaN, written <<0, 0>>)
Mean_of_empty_too(turns) == <<SeqSum(turns), Len(turns)>>

\* pd.Series(turns).mean() if turns else None
Mean(turns) == IF turns # <<>> THEN <<SeqSum(turns), Len(turns)>> ELSE None

\* exact comparison of two defined rates / means
RatEq(a, b) == a[1] * b[2] = b[1] * a[2]
RatGreater(a, b) == a[1] * b[2] > b[1] * a[2]

\* sum of a sequence of defined rates, as one fraction
RECURSIVE RateSum(_)
RateSum(rs) ==
  IF rs = <<>> THEN <<0, 1>>
  ELSE LET t == RateSum(Tail(rs))
           h == Head(rs)
       IN <<h[1] * t[2] + t[1] * h[2], h[2] * t[2]>>

\* pd.Series(rates).mean() if rates else None
RateMean(rs) ==
  IF rs = <<>> THEN None
  ELSE LET t == RateSum(rs) IN <<t[1], t[2] * Len(rs)>>

\* ------------------------------------------------------------------------
\* Name discovery
\* ------------------------------------------------------------------------
\* names of a column after .replace('', pd.NA).dropna().unique()
NonEmptyValues(df, col) == {df[i][col] : i \in 1..Len(df)} \ {""}

get_all_analyzable_deck_names(df) ==
  LET my_decks == NonEmptyValues(df, "my_deck")
      opponent_decks == NonEmptyValues(df, "opponent_deck")
      all_decks_set == my_decks \cup opponent_decks
  IN SortedStrings({d \in all_decks_set : d # "" /\ Lower(d) # "nan"})

get_all_types_for_archetype(df, deck_name) ==
  IF deck_name = "" \/ deck_name = SELECT_PLACEHOLDER
  THEN <<ALL_TYPES_PLACEHOLDER>>
  ELSE LET my_deck_matches == SelectSeq(df, LAMBDA r : r.my_deck = deck_name)
           opponent_deck_matches == SelectSeq(df, LAMBDA r : r.opponent_deck = deck_name)
           types == NonEmptyValues(my_deck_matches, "my_deck_type")
                      \cup NonEmptyValues(opponent_deck_matches, "opponent_deck_type")
           valid_types == SortedStrings({t \in types : t # "" /\ Lower(t) # "nan"})
       IN <<ALL_TYPES_PLACEHOLDER>> \o valid_types

\* ------------------------------------------------------------------------
\* display_general_deck_performance: the all-archetype overview
\* ------------------------------------------------------------------------
games_as_my_deck_df(df, deck_a_name) ==
  SelectSeq(df, LAMBDA r : r.my_deck = deck_a_name)

\* variant: the opponent-side selection reads the my_deck column
games_as_opponent_deck_df_my_column(df, deck_a_name) ==
  SelectSeq(df, LAMBDA r : r.my_deck = deck_a_name)

games_as_opponent_deck_df(df, deck_a_name) ==
  SelectSeq(df, LAMBDA r : r.opponent_deck = deck_a_name)

wins_as_my_deck(games) == Len(SelectSeq(games, LAMBDA r : r.result = WIN))

wins_as_opponent_deck(games) == Len(SelectSeq(games, LAMBDA r : r.result = LOSS))

deck_a_first_as_my(games) == SelectSeq(games, LAMBDA r : r.first_second = FIRST)

deck_a_first_as_opp(games) == SelectSeq(games, LAMBDA r : r.first_second = SECOND)

deck_a_second_as_my(games) == SelectSeq(games, LAMBDA r : r.first_second = SECOND)

\* variant: the recorded seat is taken as the seat of deck A
deck_a_second_as_opp_same_seat(games) == SelectSeq(games, LAMBDA r : r.first_second = SECOND)

deck_a_second_as_opp(games) == SelectSeq(games, LAMBDA r : r.first_second = FIRST)

\* str(x).strip(): only blank strings change
Strip(s) == IF s \in {"", " "} THEN "" ELSE s

\* variant: the games of deck A against itself are not left out
unique_opponents_faced_by_deck_a_with_self(df, deck_a_name) ==
  LET games_involving_deck_a ==
        SelectSeq(df, LAMBDA r : r.my_deck = deck_a_name \/ r.opponent_deck = deck_a_name)
      opponent_for_this_game(row) ==
        IF row.my_deck = deck_a_name THEN row.opponent_deck ELSE row.my_deck
  IN {opponent_for_this_game(games_involving_deck_a[i]) :
        i \in {j \in 1..Len(games_involving_deck_a) :
                 LET o == opponent_for_this_game(games_involving_deck_a[j])
                 IN o # "" /\ Strip(o) # "" /\ Lower(Strip(o)) # "nan"}}

\* the set of opponents collected by the iterrows() loop
unique_opponents_faced_by_deck_a(df, deck_a_name) ==
  LET games_involving_deck_a ==
        SelectSeq(df, LAMBDA r : r.my_deck = deck_a_name \/ r.opponent_deck = deck_a_name)
      opponent_for_this_game(row) ==
        IF row.my_deck = deck_a_name THEN row.opponent_deck ELSE row.my_deck
  IN {opponent_for_this_game(games_involving_deck_a[i]) :
        i \in {j \in 1..Len(games_involving_deck_a) :
                 LET o == opponent_for_this_game(games_involving_deck_a[j])
                 IN /\ o # ""
                    /\ o # deck_a_name
                    /\ Strip(o) # ""
                    /\ Lower(Strip(o)) # "nan"}}

\* A's win rate restricted to the games against one opponent archetype
matchup_win_rate(df, deck_a_name, opponent_archetype_name) ==
  LET a_vs_opp_my_games ==
        SelectSeq(df, LAMBDA r : r.my_deck = deck_a_name
                                   /\ r.opponent_deck = opponent_archetype_name)
      a_vs_opp_my_wins == Len(SelectSeq(a_vs_opp_my_games, LAMBDA r : r.result = WIN))
      a_vs_opp_opponent_games ==
        SelectSeq(df, LAMBDA r : r.opponent_deck = deck_a_name
                                   /\ r.my_deck = opponent_archetype_name)
      a_vs_opp_opponent_wins ==
        Len(SelectSeq(a_vs_opp_opponent_games, LAMBDA r : r.result = LOSS))
      total_games_vs_specific_opponent ==
        Len(a_vs_opp_my_games) + Len(a_vs_opp_opponent_games)
      total_wins_for_a_vs_specific_opponent == a_vs_opp_my_wins + a_vs_opp_opponent_wins
  IN Rate(total_wins_for_a_vs_specific_opponent, total_games_vs_specific_opponent)

avg_matchup_wr_deck_a(df, deck_a_name) ==
  LET opps == SortedStrings(unique_opponents_faced_by_deck_a(df, deck_a_name))
      all_rates == [i \in 1..Len(opps) |-> matchup_win_rate(df, deck_a_name, opps[i])]
      matchup_win_rates_for_deck_a == SelectSeq(all_rates, LAMBDA wr : wr # None)
  IN RateMean(matchup_win_rates_for_deck_a)

\* one row of general_performance_data (appended only if it has appearances)
general_performance_row(df, deck_a_name) ==
  LET my == games_as_my_deck_df(df, deck_a_name)
      opp == games_as_opponent_deck_df(df, deck_a_name)
      count_as_my_deck == Len(my)
      count_as_opponent_deck == Len(opp)
      total_appearances_deck_a == count_as_my_deck + count_as_opponent_deck
      total_wins_deck_a == wins_as_my_deck(my) + wins_as_opponent_deck(opp)
      first_my == deck_a_first_as_my(my)
      first_opp == deck_a_first_as_opp(opp)
      total_games_deck_a_first == Len(first_my) + Len(first_opp)
      wins_deck_a_first == wins_as_my_deck(first_my) + wins_as_opponent_deck(first_opp)
      second_my == deck_a_second_as_my(my)
      second_opp == deck_a_second_as_opp(opp)
      total_games_deck_a_second == Len(second_my) + Len(second_opp)
      wins_deck_a_second == wins_as_my_deck(second_my) + wins_as_opponent_deck(second_opp)
  IN [deck |-> deck_a_name,
      appearances |-> total_appearances_deck_a,
      first_games |-> total_games_deck_a_first,
      wins |-> total_wins_deck_a,
      losses |-> total_appearances_deck_a - total_wins_deck_a,
      win_rate |-> IF total_appearances_deck_a > 0
                   THEN <<total_wins_deck_a, total_appearances_deck_a>> ELSE <<0, 1>>,
      avg_matchup_wr |-> avg_matchup_wr_deck_a(df, deck_a_name),
      first_win_rate |-> Rate(wins_deck_a_first, total_games_deck_a_first),
      second_win_rate |-> Rate(wins_deck_a_second, total_games_deck_a_second)]

\* sort_values() on one column sorts with kind='quicksort', which numpy does
\* not promise to be stable: whether rows with equal keys keep their order is
\* a property of the numpy build and of the table size.  It is fixed for a
\* whole session: TRUE when equal keys keep their order, FALSE when the sort
\* returns them in the opposite order.
VARIABLE quicksort_keeps_ties

\* sort_values(by avg matchup win rate, ascending=False, na_position='last'):
\* x comes strictly before y
OverviewBefore(x, y) ==
  /\ x.avg_matchup_wr # None
  /\ \/ y.avg_matchup_wr = None
     \/ RatGreater(x.avg_matchup_wr, y.avg_matchup_wr)

\* x and y have the same defined key (NaN rows are appended in their order)
OverviewTie(x, y) ==
  /\ x.avg_matchup_wr # None
  /\ y.avg_matchup_wr # None
  /\ RatEq(x.avg_matchup_wr, y.avg_matchup_wr)

RECURSIVE OverviewInsert(_, _)
OverviewInsert(x, s) ==
  IF s = <<>> THEN <<x>>
  ELSE IF OverviewBefore(x, Head(s)) \/ (~quicksort_keeps_ties /\ OverviewTie(x, Head(s)))
       THEN <<x>> \o s
       ELSE <<Head(s)>> \o OverviewInsert(x, Tail(s))

RECURSIVE gen_perf_df_sorted(_)
gen_perf_df_sorted(rows) ==
  IF rows = <<>> THEN <<>>
  ELSE OverviewInsert(rows[Len(rows)],
                      gen_perf_df_sorted(SubSeq(rows, 1, Len(rows) - 1)))

display_general_deck_performance(df_to_analyze) ==
  LET all_deck_archetypes == get_all_analyzable_deck_names(df_to_analyze)
      rows == [i \in 1..Len(all_deck_archetypes) |->
                 general_performance_row(df_to_analyze, all_deck_archetypes[i])]
      general_performance_data == SelectSeq(rows, LAMBDA row : row.appearances > 0)
  IN gen_perf_df_sorted(general_performance_data)

\* ------------------------------------------------------------------------
\* show_analysis_section: own metrics of the focus report
\* ------------------------------------------------------------------------
\* 'if selected_focus_type and selected_focus_type != ALL_TYPES_PLACEHOLDER'
TypeSelected(selected_focus_type) ==
  selected_focus_type # "" /\ selected_focus_type # ALL_TYPES_PLACEHOLDER

focus_as_my_deck_games(df, selected_focus_deck, selected_focus_type) ==
  SelectSeq(df, LAMBDA r :
    /\ r.my_deck = selected_focus_deck
    /\ TypeSelected(selected_focus_type) => r.my_deck_type = selected_focus_type)

focus_as_opponent_deck_games(df, selected_focus_deck, selected_focus_type) ==
  SelectSeq(df, LAMBDA r :
    /\ r.opponent_deck = selected_focus_deck
    /\ TypeSelected(selected_focus_type) => r.opponent_deck_type = selected_focus_type)

wins_when_focus_is_my_deck_df(games) == SelectSeq(games, LAMBDA r : r.result = WIN)

\* variant: the opponent-side wins are not negated
wins_when_focus_is_opponent_deck_df_not_negated(games) ==
  SelectSeq(games, LAMBDA r : r.result = WIN)

wins_when_focus_is_opponent_deck_df(games) == SelectSeq(games, LAMBDA r : r.result = LOSS)

focus_first_my(games) == SelectSeq(games, LAMBDA r : r.first_second = FIRST)

\* variant: the opponent-side seat is not negated
focus_first_opp_not_negated(games) == SelectSeq(games, LAMBDA r : r.first_second = FIRST)

focus_first_opp(games) == SelectSeq(games, LAMBDA r : r.first_second = SECOND)

focus_second_my(games) == SelectSeq(games, LAMBDA r : r.first_second = SECOND)

focus_second_opp(games) == SelectSeq(games, LAMBDA r : r.first_second = FIRST)

\* variant: the absent finish turns are not dropped
FinishTurns_keep_absent(games) == [i \in 1..Len(games) |-> games[i].finish_turn]

\* games['finish_turn'].dropna().tolist()
FinishTurns(games) ==
  LET defined == SelectSeq(games, LAMBDA r : r.finish_turn # 0)
  IN [i \in 1..Len(defined) |-> defined[i].finish_turn]

\* variant: the turns of the opponent-side wins are left out
avg_win_finish_turn_val_my_only(my_wins, opp_wins) == Mean(FinishTurns(my_wins))

avg_win_finish_turn_val(my_wins, opp_wins) ==
  Mean(FinishTurns(my_wins) \o FinishTurns(opp_wins))

focus_own_metrics(my, opp) ==
  LET total_appearances == Len(my) + Len(opp)
      my_wins == wins_when_focus_is_my_deck_df(my)
      opp_wins == wins_when_focus_is_opponent_deck_df(opp)
      total_wins_for_focus_deck == Len(my_wins) + Len(opp_wins)
      first_my == focus_first_my(my)
      first_opp == focus_first_opp(opp)
      total_games_focus_first == Len(first_my) + Len(first_opp)
      wins_focus_first == Len(wins_when_focus_is_my_deck_df(first_my))
                            + Len(wins_when_focus_is_opponent_deck_df(first_opp))
      second_my == focus_second_my(my)
      second_opp == focus_second_opp(opp)
      total_games_focus_second == Len(second_my) + Len(second_opp)
      wins_focus_second == Len(wins_when_focus_is_my_deck_df(second_my))
                             + Len(wins_when_focus_is_opponent_deck_df(second_opp))
  IN [appearances |-> total_appearances,
      wins |-> total_wins_for_focus_deck,
      losses |-> total_appearances - total_wins_for_focus_deck,
      win_rate |-> IF total_appearances > 0
                   THEN <<total_wins_for_focus_deck, total_appearances>> ELSE <<0, 1>>,
      avg_win_turn |-> avg_win_finish_turn_val(my_wins, opp_wins),
      first_games |-> total_games_focus_first,
      first_wins |-> wins_focus_first,
      first_win_rate |-> Rate(wins_focus_first, total_games_focus_first),
      second_games |-> total_games_focus_second,
      second_wins |-> wins_focus_second,
      second_win_rate |-> Rate(wins_focus_second, total_games_focus_second)]

\* ------------------------------------------------------------------------
\* show_analysis_section: matchup table of the focus report
\* ------------------------------------------------------------------------
\* variant: only the pairs of the games where the focus is my_deck
opponents_set_my_only(my, opp) ==
  {<<my[i].opponent_deck, my[i].opponent_deck_type>> : i \in 1..Len(my)}

\* (opponent deck, opponent type) pairs seen from the focus side
opponents_set(my, opp) ==
  {<<my[i].opponent_deck, my[i].opponent_deck_type>> : i \in 1..Len(my)}
    \cup {<<opp[i].my_deck, opp[i].my_deck_type>> : i \in 1..Len(opp)}

\* variant: the focus archetype itself is not listed as an opponent
all_faced_opponents_tuples_without_focus(my, opp) ==
  LET focus == IF my # <<>> THEN my[1].my_deck ELSE opp[1].opponent_deck
  IN SortedTuples({t \in opponents_set(my, opp) :
                     t[1] # "" /\ Lower(t[1]) # "nan" /\ t[1] # focus})

all_faced_opponents_tuples(my, opp) ==
  SortedTuples({t \in opponents_set(my, opp) : t[1] # "" /\ Lower(t[1]) # "nan"})

\* focus wins / losses among the games where the focus is my_deck (case1)
\* and where it is opponent_deck (case2)
case1_wins_df(case1_games) == SelectSeq(case1_games, LAMBDA r : r.result = WIN)

case1_losses_df(case1_games) == SelectSeq(case1_games, LAMBDA r : r.result = LOSS)

\* variant: the case2 wins are not negated
case2_focus_wins_df_not_negated(case2_games) ==
  SelectSeq(case2_games, LAMBDA r : r.result = WIN)

case2_focus_wins_df(case2_games) == SelectSeq(case2_games, LAMBDA r : r.result = LOSS)

case2_focus_losses_df(case2_games) == SelectSeq(case2_games, LAMBDA r : r.result = WIN)

\* the row built from case1 and case2
matchup_row(case1_games, case2_games, opp_deck_name, opp_deck_type) ==
  LET games_played_count == Len(case1_games) + Len(case2_games)
      focus_deck_wins_count == Len(case1_wins_df(case1_games))
                                 + Len(case2_focus_wins_df(case2_games))
      c1_fd_first == SelectSeq(case1_games, LAMBDA r : r.first_second = FIRST)
      c1_fd_second == SelectSeq(case1_games, LAMBDA r : r.first_second = SECOND)
      c2_fd_first == SelectSeq(case2_games, LAMBDA r : r.first_second = SECOND)
      c2_fd_second == SelectSeq(case2_games, LAMBDA r : r.first_second = FIRST)
      first_games_count == Len(c1_fd_first) + Len(c2_fd_first)
      first_wins_count == Len(case1_wins_df(c1_fd_first))
                            + Len(case2_focus_wins_df(c2_fd_first))
      second_games_count == Len(c1_fd_second) + Len(c2_fd_second)
      second_wins_count == Len(case1_wins_df(c1_fd_second))
                             + Len(case2_focus_wins_df(c2_fd_second))
  IN [opp_deck |-> opp_deck_name,
      opp_type |-> opp_deck_type,
      games |-> games_played_count,
      first_games |-> first_games_count,
      wins |-> focus_deck_wins_count,
      win_rate |-> IF games_played_count > 0
                   THEN <<focus_deck_wins_count, games_played_count>> ELSE <<0, 1>>,
      avg_win_turn |-> Mean(FinishTurns(case1_wins_df(case1_games))
                              \o FinishTurns(case2_focus_wins_df(case2_games))),
      avg_loss_turn |-> Mean(FinishTurns(case1_losses_df(case1_games))
                               \o FinishTurns(case2_focus_losses_df(case2_games))),
      first_win_rate |-> Rate(first_wins_count, first_games_count),
      second_win_rate |-> Rate(second_wins_count, second_games_count)]

\* rows of the specific-type tier (matchup_data)
matchup_df_specific_types(my, opp) ==
  LET tuples == all_faced_opponents_tuples(my, opp)
      rows == [i \in 1..Len(tuples) |->
                 matchup_row(
                   SelectSeq(my, LAMBDA r : r.opponent_deck = tuples[i][1]
                                              /\ r.opponent_deck_type = tuples[i][2]),
                   SelectSeq(opp, LAMBDA r : r.my_deck = tuples[i][1]
                                               /\ r.my_deck_type = tuples[i][2]),
                   tuples[i][1], tuples[i][2])]
  IN SelectSeq(rows, LAMBDA row : row.games > 0)

\* rows of the pooled tier (agg_matchup_data), one per deck of the first tier
matchup_df_all_types(my, opp) ==
  LET specific == matchup_df_specific_types(my, opp)
      names == DropDuplicates([i \in 1..Len(specific) |-> specific[i].opp_deck])
      rows == [i \in 1..Len(names) |->
                 matchup_row(
                   SelectSeq(my, LAMBDA r : r.opponent_deck = names[i]),
                   SelectSeq(opp, LAMBDA r : r.my_deck = names[i]),
                   names[i], ALL_TYPES_PLACEHOLDER)]
  IN SelectSeq(rows, LAMBDA row : row.games > 0)

\* the '__sort_type' key: '0_AllTypes' or '1_' + str(x), as <<prefix, rest>>
sort_type(x) == IF x = ALL_TYPES_PLACEHOLDER THEN <<0, "AllTypes">> ELSE <<1, x>>

SortTypeLess(a, b) == a[1] < b[1] \/ (a[1] = b[1] /\ StrLess(a[2], b[2]))

\* sort_values(by=[opponent deck, __sort_type]): x comes strictly before y
MatchupBefore(x, y) ==
  \/ StrLess(x.opp_deck, y.opp_deck)
  \/ /\ x.opp_deck = y.opp_deck
     /\ SortTypeLess(sort_type(x.opp_type), sort_type(y.opp_type))

RECURSIVE MatchupInsert(_, _)
MatchupInsert(x, s) ==
  IF s = <<>> THEN <<x>>
  ELSE IF MatchupBefore(x, Head(s)) THEN <<x>> \o s
       ELSE <<Head(s)>> \o MatchupInsert(x, Tail(s))

RECURSIVE SortMatchup(_)
SortMatchup(rows) ==
  IF rows = <<>> THEN <<>>
  ELSE MatchupInsert(rows[Len(rows)], SortMatchup(SubSeq(rows, 1, Len(rows) - 1)))

\* variant: the merged table is left unsorted
matchup_df_final_unsorted(my, opp) ==
  matchup_df_specific_types(my, opp) \o matchup_df_all_types(my, opp)

matchup_df_final(my, opp) ==
  SortMatchup(matchup_df_specific_types(my, opp) \o matchup_df_all_types(my, opp))

\* ------------------------------------------------------------------------
\* show_analysis_section: memo list of the focus report
\* ------------------------------------------------------------------------
\* rows whose memo is not blank and not 'nan'
memo_filter(games) ==
  SelectSeq(games, LAMBDA r : Strip(r.memo) # "" /\ Lower(r.memo) # "nan")

\* dt.strftime('%Y-%m-%d') of the day numbers of the model; NaT gives NaN,
\* written "NaT" here
strftime(date) ==
  CASE date = 1 -> "2024-12-31"
    [] date = 2 -> "2025-01-01"
    [] OTHER    -> "NaT"

\* variant: the dated rows are put in ascending order
MemoBefore_ascending(x, y) ==
  /\ x.date # "NaT"
  /\ \/ y.date = "NaT"
     \/ StrLess(x.date, y.date)

\* sort_values(by='date', ascending=False): x comes strictly before y
MemoBefore(x, y) ==
  /\ x.date # "NaT"
  /\ \/ y.date = "NaT"
     \/ StrLess(y.date, x.date)

\* x and y have the same defined date
MemoTie(x, y) == x.date # "NaT" /\ x.date = y.date

RECURSIVE MemoInsert(_, _)
MemoInsert(x, s) ==
  IF s = <<>> THEN <<x>>
  ELSE IF MemoBefore(x, Head(s)) \/ (~quicksort_keeps_ties /\ MemoTie(x, Head(s)))
       THEN <<x>> \o s
       ELSE <<Head(s)>> \o MemoInsert(x, Tail(s))

RECURSIVE SortMemo(_)
SortMemo(rows) ==
  IF rows = <<>> THEN <<>>
  ELSE MemoInsert(rows[Len(rows)], SortMemo(SubSeq(rows, 1, Len(rows) - 1)))

df_memo_display(my, opp) ==
  LET all_memo_games == DropDuplicates(memo_filter(my) \o memo_filter(opp))
      rendered == [i \in 1..Len(all_memo_games) |->
                     [all_memo_games[i] EXCEPT !.date = strftime(@)]]
  IN SortMemo(rendered)

\* ------------------------------------------------------------------------
\* show_analysis_section: filtering and control flow of one run
\* ------------------------------------------------------------------------
\* variant: the placeholder option counts as a season
SeasonSelected_placeholder_too(selected_season) == selected_season # ""

SeasonSelected(selected_season) ==
  selected_season # "" /\ selected_season # SELECT_PLACEHOLDER

\* variant: the environment selection is not applied
df_for_analysis_season_only(original_df, selected_season, selected_environments) ==
  IF SeasonSelected(selected_season)
  THEN SelectSeq(original_df, LAMBDA r : r.season = selected_season)
  ELSE original_df

df_for_analysis(original_df, selected_season, selected_environments) ==
  LET by_season == IF SeasonSelected(selected_season)
                   THEN SelectSeq(original_df, LAMBDA r : r.season = selected_season)
                   ELSE original_df
  IN IF selected_environments # {}
     THEN SelectSeq(by_season, LAMBDA r : r.environment \in selected_environments)
     ELSE by_season

FocusSelected(selected_focus_deck) ==
  selected_focus_deck # "" /\ selected_focus_deck # SELECT_PLACEHOLDER

\* what one run renders; tables that are not rendered are empty
Rendered(kind, overview, own, matchup, memo) ==
  [kind |-> kind, overview |-> overview, own |-> own, matchup |-> matchup, memo |-> memo]

\* variant: no early return when the focus has no appearance
focus_report_no_guard(df, selected_focus_deck, selected_focus_type) ==
  LET my == focus_as_my_deck_games(df, selected_focus_deck, selected_focus_type)
      opp == focus_as_opponent_deck_games(df, selected_focus_deck, selected_focus_type)
  IN Rendered("focus", <<>>, <<focus_own_metrics(my, opp)>>,
              matchup_df_final(my, opp), df_memo_display(my, opp))

focus_report(df, selected_focus_deck, selected_focus_type) ==
  LET my == focus_as_my_deck_games(df, selected_focus_deck, selected_focus_type)
      opp == focus_as_opponent_deck_games(df, selected_focus_deck, selected_focus_type)
      total_appearances == Len(my) + Len(opp)
  IN IF total_appearances = 0
     THEN Rendered("focus_not_found", <<>>, <<>>, <<>>, <<>>)
     ELSE Rendered("focus", <<>>, <<focus_own_metrics(my, opp)>>,
                   matchup_df_final(my, opp), df_memo_display(my, opp))

\* variant: the overview is computed whether or not a focus is selected
show_analysis_section_overview_always(loaded, season, environments, focus_deck, focus_type) ==
  LET df == df_for_analysis(loaded, season, environments)
  IN IF loaded = <<>>
     THEN Rendered("no_records", <<>>, <<>>, <<>>, <<>>)
     ELSE IF df = <<>>
     THEN Rendered("no_match", <<>>, <<>>, <<>>, <<>>)
     ELSE IF FocusSelected(focus_deck)
     THEN [focus_report(df, focus_deck, focus_type)
             EXCEPT !.overview = display_general_deck_performance(df)]
     ELSE Rendered("overview", display_general_deck_performance(df), <<>>, <<>>, <<>>)

show_analysis_section(loaded, season, environments, focus_deck, focus_type) ==
  LET selected_season == season
      selected_environments == environments
      selected_focus_deck == focus_deck
      selected_focus_type == focus_type
      df == df_for_analysis(loaded, selected_season, selected_environments)
  IN IF loaded = <<>>
     THEN Rendered("no_records", <<>>, <<>>, <<>>, <<>>)
     ELSE IF df = <<>>
     THEN Rendered("no_match", <<>>, <<>>, <<>>, <<>>)
     ELSE IF FocusSelected(selected_focus_deck)
     THEN focus_report(df, selected_focus_deck, selected_focus_type)
     ELSE Rendered("overview", display_general_deck_performance(df), <<>>, <<>>, <<>>)

\* ------------------------------------------------------------------------
\* Records the sheet can hold (after load_data: blank cells read 'nan')
\* ------------------------------------------------------------------------
Rec(season, my, myType, opp, oppType, seat, result, turn, memo, date) ==
  [season |-> season, date |-> date, environment |-> "E1",
   my_deck |-> my, my_deck_type |-> myType,
   opponent_deck |-> opp, opponent_deck_type |-> oppType,
   first_second |-> seat, result |-> result, finish_turn |-> turn, memo |-> memo]

\* Alpha / Red against Beta / Blue, recorded from either side, every seat and result
PairRecords ==
  {Rec("S1", "Alpha", "Red", "Beta", "Blue", seat, result, 5, "nan", 1) :
     seat \in {FIRST, SECOND}, result \in {WIN, LOSS}}
  \cup {Rec("S1", "Beta", "Blue", "Alpha", "Red", seat, result, 7, "nan", 2) :
     seat \in {FIRST, SECOND}, result \in {WIN, LOSS}}

\* other types, mirror matches, another season, a memo, a blank opponent
OtherRecords ==
  {Rec("S1", "Alpha", "Red", "Beta", "Red", SECOND, LOSS, 7, "nan", 1),
   Rec("S1", "Beta", "Red", "Alpha", "Blue", FIRST, WIN, 5, "note", 0),
   Rec("S1", "Alpha", "Red", "Alpha", "Red", FIRST, WIN, 5, "note", 2),
   Rec("S1", "Alpha", "Blue", "Alpha", "Red", SECOND, LOSS, 0, "nan", 1),
   Rec("S2", "Beta", "Blue", "Beta", "Blue", FIRST, LOSS, 7, "nan", 2),
   Rec("S2", "Alpha", "Blue", "Beta", "Blue", SECOND, WIN, 0, "nan", 0),
   Rec("S2", "Alpha", "Red", "nan", "nan", FIRST, WIN, 5, "nan", 1)}

RecordPool == PairRecords \cup OtherRecords

EnvSelections == {{}, {SELECT_PLACEHOLDER}} \cup {{e} : e \in EnvNames}

\* ------------------------------------------------------------------------
\* load_data: reading the worksheet into the canonical table
\* ------------------------------------------------------------------------
MaxSheetRows == 2

COLUMNS ==
  <<"season", "date", "environment", "my_deck", "my_deck_type", "opponent_deck",
    "opponent_deck_type", "first_second", "result", "finish_turn", "memo">>

\* a table, as far as its shape goes: column labels and number of rows
Frame(columns, row_count) == [columns |-> columns, row_count |-> row_count]

\* pd.DataFrame(columns=COLUMNS), with or without the typed empty columns
empty_df == Frame(COLUMNS, 0)

\* get_as_dataframe, or the header-only table when the sheet has no data row
sheet_df(header, row_count) == Frame(header, row_count)

\* temp_df: one column per canonical name, taken from the sheet when the
\* sheet has it and empty otherwise; the rows are those of the first sheet
\* column that is taken over
temp_df(df) ==
  LET taken == SelectSeq(COLUMNS, LAMBDA col : col \in Range(df.columns))
      built == [i \in 1..Len(COLUMNS) |-> COLUMNS[i]]
  IN Frame(built, IF taken = <<>> THEN 0 ELSE df.row_count)

\* df.reindex(columns=COLUMNS): the listed columns in the listed order
reindex(df, columns) == Frame(columns, df.row_count)

\* what get_gspread_client returned: a client, or None
CLIENT == "client"
NO_CLIENT == "None"

\* the exceptions the body of the try block can end with
READ_OK == "ok"
SpreadsheetNotFound == "SpreadsheetNotFound"
WorksheetNotFound == "WorksheetNotFound"
OtherException == "Exception"
ReadOutcomes == {READ_OK, SpreadsheetNotFound, WorksheetNotFound, OtherException}

\* what a call of load_data ends with: the table returned, or the exception
\* that leaves the function
Returned(df) == [raised |-> "", df |-> df]
Raised(exception) == [raised |-> exception, df |-> Frame(<<>>, 0)]

\* variant: without the last handler, `except Exception`
load_data_without_last_handler(client, read, header, row_count) ==
  IF client = NO_CLIENT
  THEN Returned(empty_df)
  ELSE IF read = SpreadsheetNotFound THEN Returned(Frame(COLUMNS, 0))
  ELSE IF read = WorksheetNotFound THEN Returned(Frame(COLUMNS, 0))
  ELSE IF read # READ_OK THEN Raised(read)
  ELSE Returned(reindex(temp_df(sheet_df(header, row_count)), COLUMNS))

\* load_data for the client get_gspread_client returned (None when there is
\* none), the way the read of the sheet ends and the sheet's header and rows
load_data(client, read, header, row_count) ==
  IF client = NO_CLIENT
  THEN Returned(empty_df)
  ELSE IF read = SpreadsheetNotFound THEN Returned(Frame(COLUMNS, 0))
  ELSE IF read = WorksheetNotFound THEN Returned(Frame(COLUMNS, 0))
  ELSE IF read # READ_OK THEN Returned(Frame(COLUMNS, 0))
  ELSE Returned(reindex(temp_df(sheet_df(header, row_count)), COLUMNS))

\* the environment of the last call of load_data and what the call ended with
VARIABLES worksheet, loaded

\* ------------------------------------------------------------------------
\* card_tracker.main: the login gate of the main page
\* ------------------------------------------------------------------------
MaxFailedLogins == 3

CORRECT_PASSWORD == "secret"

\* what the user can type into the form, and what the browser's auth_password
\* cookie can hold ("" when there is none, "old" after a change of password)
PasswordInputs == {"", "guess", CORRECT_PASSWORD}
CookieValues == {"", "old", CORRECT_PASSWORD}

\* what a run of a page displayed
NOTHING == "nothing"
LOGIN_FORM == "login_form"
LOGIN_ERROR == "login_form_with_error"
RECORDS == "records"

\* the automatic login: cookies.get('auth_password') inside try / except
auto_login(authenticated, cookie, cookie_readable) ==
  IF ~authenticated /\ cookie_readable /\ cookie # "" /\ cookie = CORRECT_PASSWORD
  THEN TRUE
  ELSE authenticated

\* variant: any password that is typed in is accepted
password_accepted_always(password_input) == TRUE

password_accepted(password_input) == password_input = CORRECT_PASSWORD

\* one run of main, followed by the run st.rerun() starts after a successful
\* login: the session flag and cookie it leaves and what is displayed
card_tracker_main(authenticated, cookie, cookie_readable, login_button, password_input) ==
  LET after_cookie == auto_login(authenticated, cookie, cookie_readable)
  IN IF after_cookie
     THEN [authenticated |-> TRUE, cookie |-> cookie, page |-> RECORDS]
     ELSE IF ~login_button
     THEN [authenticated |-> FALSE, cookie |-> cookie, page |-> LOGIN_FORM]
     ELSE IF password_accepted(password_input)
     THEN [authenticated |-> TRUE, cookie |-> CORRECT_PASSWORD, page |-> RECORDS]
     ELSE [authenticated |-> FALSE, cookie |-> cookie, page |-> LOGIN_ERROR]

\* one run of pages/01: main() loads the sheet and displays analysis and list
analysis_page_main(authenticated) == RECORDS

\* st.session_state.authenticated, the browser's auth_password cookie, the
\* password of the last submission, what the main page and the analysis page
\* displayed last, and the number of rejected submissions of the session
VARIABLES authenticated, auth_password, password_input, main_page, analysis_page,
          failed_logins

\* ------------------------------------------------------------------------
\* pages/02: reading the player and record sheets and merging them
\* ------------------------------------------------------------------------
MaxPlayers == 2
MaxRecordSheetRows == 3

\* a missing value (NaN) and a sheet row without any value
NA == "NaN"
BLANK_ROW == ""

\* a row of the player table (PLAYER_COLUMNS) without a value in any column
NoPlayer == [player_name |-> NA, TwitterID |-> NA, team |-> NA, nickname |-> NA]

\* load_data_from_sheet for the record sheet: the rows are labelled 0, 1, ...
\* in sheet order and dropna(how='all') removes the blank rows, the labels of
\* the other rows stay as they are
load_data_from_sheet(sheet) ==
  LET labelled == [i \in 1..Len(sheet) |-> [index |-> i - 1, player_name |-> sheet[i]]]
  IN SelectSeq(labelled, LAMBDA row : row.player_name # BLANK_ROW)

RECURSIVE Flatten(_)
Flatten(seqs) == IF seqs = <<>> THEN <<>> ELSE Head(seqs) \o Flatten(Tail(seqs))

\* a row of a merge result
MergedRow(index, record_name, player) ==
  [index |-> index, player_name |-> record_name, TwitterID |-> player.TwitterID,
   team |-> player.team, nickname |-> player.nickname]

\* pd.merge(record_df, player_df, on=player name, how="left"): one row per
\* record and matching player, one row with missing player columns for a
\* record without match, in the order of the records, labelled 0, 1, ...
merge_on_player_name(record_df, player_df) ==
  LET pairs(i) ==
        LET matches == SelectSeq(player_df,
                                 LAMBDA pl : pl.player_name = record_df[i].player_name)
        IN IF matches = <<>> THEN <<NoPlayer>> ELSE matches
      rows == Flatten([i \in 1..Len(record_df) |->
                [j \in 1..Len(pairs(i)) |-> <<record_df[i].player_name, pairs(i)[j]>>]])
  IN [k \in 1..Len(rows) |-> MergedRow(k - 1, rows[k][1], rows[k][2])]

\* pd.merge(unmatched_records, player_df, left_on=player name,
\* right_on=nickname, how="left"): <<record name, player or NoPlayer>>
nickname_match(unmatched_records, player_df) ==
  Flatten([i \in 1..Len(unmatched_records) |->
    LET matches == SelectSeq(player_df,
                             LAMBDA pl : pl.nickname = unmatched_records[i].player_name)
    IN IF matches = <<>> THEN <<<<unmatched_records[i].player_name, NoPlayer>>>>
       ELSE [j \in 1..Len(matches) |-> <<unmatched_records[i].player_name, matches[j]>>]])

\* the three assignments merged_df.loc[label, col] = value: the row labelled
\* `label` gets the player columns, and when no row has that label a new row
\* with that label is appended (its other columns are missing)
loc_set(merged_df, label, player) ==
  IF \E k \in 1..Len(merged_df) : merged_df[k].index = label
  THEN [k \in 1..Len(merged_df) |->
          IF merged_df[k].index = label
          THEN [merged_df[k] EXCEPT !.TwitterID = player.TwitterID, !.team = player.team,
                                    !.nickname = player.nickname]
          ELSE merged_df[k]]
  ELSE Append(merged_df, MergedRow(label, NA, player))

\* original_idx: the labels of the unmatched records with the name of the row
original_idx(unmatched_records, record_name) ==
  LET same == SelectSeq(unmatched_records, LAMBDA u : u.player_name = record_name)
  IN [k \in 1..Len(same) |-> same[k].index]

\* the iterrows() loop over the rows of nickname_match, from row n on
RECURSIVE update_from_nickname(_, _, _, _)
update_from_nickname(merged_df, rows, unmatched_records, n) ==
  IF n > Len(rows) THEN merged_df
  ELSE LET row == rows[n]
           labels == original_idx(unmatched_records, row[1])
           updated == IF row[2].player_name # NA /\ labels # <<>>
                      THEN loc_set(merged_df, labels[1], row[2])
                      ELSE merged_df
       IN update_from_nickname(updated, rows, unmatched_records, n + 1)

\* what the run of the page ends with
PageResult(kind, raised, rows) == [kind |-> kind, raised |-> raised, rows |-> rows]

\* main of pages/02 from the two tables read to the merged table; with one
\* table empty the other one is displayed as it is (kind "players" or
\* "records", its rows are not repeated here)
merge_player_records(player_df, record_df) ==
  IF player_df = <<>> /\ record_df = <<>> THEN PageResult("no_data", "", <<>>)
  ELSE IF record_df = <<>> THEN PageResult("players", "", <<>>)
  ELSE IF player_df = <<>> THEN PageResult("records", "", <<>>)
  ELSE LET merged_df == merge_on_player_name(record_df, player_df)
       IN IF Len(merged_df) # Len(record_df)
          THEN PageResult("merged", "ValueError", <<>>)
          ELSE LET unmatched_positions ==
                     {i \in 1..Len(record_df) : merged_df[i].TwitterID = NA}
                   unmatched_records ==
                     SelectSeq(record_df,
                               LAMBDA r : \E i \in unmatched_positions : record_df[i] = r)
               IN IF unmatched_records = <<>>
                  THEN PageResult("merged", "", merged_df)
                  ELSE PageResult("merged", "",
                         update_from_nickname(merged_df,
                           nickname_match(unmatched_records, player_df),
                           unmatched_records, 1))

\* the player table, the rows of the record sheet and what the page made of them
VARIABLES player_df, record_sheet, merged

\* ------------------------------------------------------------------------
\* State: the table of the last load, the widget values of the session and
\* what the last run rendered
\* ------------------------------------------------------------------------
VARIABLES original_df, ana_season_filter, ana_environment_filter,
          ana_focus_deck_name_selector, ana_focus_deck_type_selector, out

\* the state of the analysis section, and the state of the other runs
analysis_vars == <<quicksort_keeps_ties, original_df, ana_season_filter, ana_environment_filter,
                   ana_focus_deck_name_selector, ana_focus_deck_type_selector, out>>

load_vars == <<worksheet, loaded>>

login_vars == <<authenticated, auth_password, password_input, main_page, analysis_page,
                failed_logins>>

merge_vars == <<player_df, record_sheet, merged>>

vars == <<analysis_vars, load_vars, login_vars, merge_vars>>

\* variant: every run may treat equal sort keys differently from the run before
Rerun_tie_order_per_run(df, season, envs, deck, type) ==
  /\ quicksort_keeps_ties' \in BOOLEAN
  /\ original_df' = df
  /\ ana_season_filter' = season
  /\ ana_environment_filter' = envs
  /\ ana_focus_deck_name_selector' = deck
  /\ ana_focus_deck_type_selector' = type
  /\ out' = show_analysis_section(df, season, envs, deck, type)
  /\ UNCHANGED <<load_vars, login_vars, merge_vars>>

\* the rerun of the script with the given table and widget values
Rerun(df, season, envs, deck, type) ==
  /\ quicksort_keeps_ties' = quicksort_keeps_ties
  /\ original_df' = df
  /\ ana_season_filter' = season
  /\ ana_environment_filter' = envs
  /\ ana_focus_deck_name_selector' = deck
  /\ ana_focus_deck_type_selector' = type
  /\ out' = show_analysis_section(df, season, envs, deck, type)
  /\ UNCHANGED <<load_vars, login_vars, merge_vars>>

Init ==
  /\ quicksort_keeps_ties \in BOOLEAN
  /\ original_df = <<>>
  /\ ana_season_filter = SELECT_PLACEHOLDER
  /\ ana_environment_filter = {}
  /\ ana_focus_deck_name_selector = SELECT_PLACEHOLDER
  /\ ana_focus_deck_type_selector = ""
  /\ out = show_analysis_section(<<>>, SELECT_PLACEHOLDER, {}, SELECT_PLACEHOLDER, "")
  /\ worksheet = [client |-> NO_CLIENT, read |-> READ_OK, header |-> <<>>, row_count |-> 0]
  /\ loaded = load_data(NO_CLIENT, READ_OK, <<>>, 0)
  /\ authenticated = FALSE
  /\ auth_password = ""
  /\ password_input = ""
  /\ main_page = NOTHING
  /\ analysis_page = NOTHING
  /\ failed_logins = 0
  /\ player_df = <<>>
  /\ record_sheet = <<>>
  /\ merged = merge_player_records(<<>>, <<>>)

\* a rerun that finds one more row in the sheet
LoadGrown(r) ==
  /\ Len(original_df) < MaxRecords
  /\ Rerun(Append(original_df, r), ana_season_filter, ana_environment_filter,
           ana_focus_deck_name_selector, ana_focus_deck_type_selector)

\* a rerun whose load_data fails and returns the empty table
LoadFailed ==
  /\ original_df # <<>>
  /\ Rerun(<<>>, ana_season_filter, ana_environment_filter,
           ana_focus_deck_name_selector, ana_focus_deck_type_selector)

\* the filter widgets are rendered once the table is not empty
SelectSeason(s) ==
  /\ original_df # <<>>
  /\ s # ana_season_filter
  /\ Rerun(original_df, s, ana_environment_filter,
           ana_focus_deck_name_selector, ana_focus_deck_type_selector)

SelectEnvironments(envs) ==
  /\ original_df # <<>>
  /\ envs # ana_environment_filter
  /\ Rerun(original_df, ana_season_filter, envs,
           ana_focus_deck_name_selector, ana_focus_deck_type_selector)

\* the focus widgets are rendered once the filtered table is not empty;
\* on_change=reset_focus_type_callback drops the type, the type selectbox
\* then starts at its first option
SelectFocusDeck(d) ==
  /\ df_for_analysis(original_df, ana_season_filter, ana_environment_filter) # <<>>
  /\ d # ana_focus_deck_name_selector
  /\ Rerun(original_df, ana_season_filter, ana_environment_filter, d,
           IF FocusSelected(d) THEN ALL_TYPES_PLACEHOLDER ELSE "")

SelectFocusType(t) ==
  /\ df_for_analysis(original_df, ana_season_filter, ana_environment_filter) # <<>>
  /\ FocusSelected(ana_focus_deck_name_selector)
  /\ t # ana_focus_deck_type_selector
  /\ Rerun(original_df, ana_season_filter, ana_environment_filter,
           ana_focus_deck_name_selector, t)

Next ==
  \/ \E r \in RecordPool : LoadGrown(r)
  \/ LoadFailed
  \/ \E s \in {SELECT_PLACEHOLDER} \cup SeasonNames : SelectSeason(s)
  \/ \E envs \in EnvSelections : SelectEnvironments(envs)
  \/ \E d \in {SELECT_PLACEHOLDER} \cup DeckNames : SelectFocusDeck(d)
  \/ \E t \in {ALL_TYPES_PLACEHOLDER} \cup TypeNames : SelectFocusType(t)

Spec == Init /\ [][Next]_vars

TypeOK ==
  /\ out.kind \in {"no_records", "no_match", "focus_not_found", "focus", "overview"}
  /\ Len(original_df) <= MaxRecords

\* ------------------------------------------------------------------------
\* Reference counts over the records the last run analysed
\* ------------------------------------------------------------------------
Df == df_for_analysis(original_df, ana_season_filter, ana_environment_filter)

FocusDeck == ana_focus_deck_name_selector
FocusType == ana_focus_deck_type_selector
TypeBlind == FocusType = ALL_TYPES_PLACEHOLDER

\* record r carries the key (name, type) on its my side / on its opponent side
OnMySide(r, name, type) ==
  r.my_deck = name /\ (type = ALL_TYPES_PLACEHOLDER \/ r.my_deck_type = type)

OnOpponentSide(r, name, type) ==
  r.opponent_deck = name /\ (type = ALL_TYPES_PLACEHOLDER \/ r.opponent_deck_type = type)

\* number of analysed records on the my side (opponent side) of the key with
\* the given recorded result and seat
AsSelf(name, type, results, seats) ==
  Cardinality({i \in 1..Len(Df) : /\ OnMySide(Df[i], name, type)
                                  /\ Df[i].result \in results
                                  /\ Df[i].first_second \in seats})

AsOpponent(name, type, results, seats) ==
  Cardinality({i \in 1..Len(Df) : /\ OnOpponentSide(Df[i], name, type)
                                  /\ Df[i].result \in results
                                  /\ Df[i].first_second \in seats})

AnyResult == {WIN, LOSS}
AnySeat == {FIRST, SECOND}

\* C1: every record on the opponent side of a key counts for the key with the
\* negated result and the negated seat: the key's wins are its recorded wins
\* on the my side plus the recorded losses on the opponent side, its first-seat
\* games are the FIRST games on the my side plus the SECOND games on the
\* opponent side, and likewise for the first-seat and second-seat wins; in the
\* overview rows and in the own metrics of the focus report.
C1_RoleFlip ==
  /\ \A k \in 1..Len(out.overview) :
       LET row == out.overview[k]
           A == row.deck
           T == ALL_TYPES_PLACEHOLDER
       IN /\ row.wins = AsSelf(A, T, {WIN}, AnySeat) + AsOpponent(A, T, {LOSS}, AnySeat)
          /\ row.first_games = AsSelf(A, T, AnyResult, {FIRST})
                                 + AsOpponent(A, T, AnyResult, {SECOND})
          /\ row.first_win_rate =
               Rate(AsSelf(A, T, {WIN}, {FIRST}) + AsOpponent(A, T, {LOSS}, {SECOND}),
                    AsSelf(A, T, AnyResult, {FIRST}) + AsOpponent(A, T, AnyResult, {SECOND}))
          /\ row.second_win_rate =
               Rate(AsSelf(A, T, {WIN}, {SECOND}) + AsOpponent(A, T, {LOSS}, {FIRST}),
                    AsSelf(A, T, AnyResult, {SECOND}) + AsOpponent(A, T, AnyResult, {FIRST}))
  /\ \A k \in 1..Len(out.own) :
       LET own == out.own[k]
           A == FocusDeck
           T == FocusType
       IN /\ own.wins = AsSelf(A, T, {WIN}, AnySeat) + AsOpponent(A, T, {LOSS}, AnySeat)
          /\ own.first_games = AsSelf(A, T, AnyResult, {FIRST})
                                 + AsOpponent(A, T, AnyResult, {SECOND})
          /\ own.first_wins = AsSelf(A, T, {WIN}, {FIRST}) + AsOpponent(A, T, {LOSS}, {SECOND})
          /\ own.second_games = AsSelf(A, T, AnyResult, {SECOND})
                                  + AsOpponent(A, T, AnyResult, {FIRST})
          /\ own.second_wins = AsSelf(A, T, {WIN}, {SECOND}) + AsOpponent(A, T, {LOSS}, {FIRST})

\* a focus report for a key with a concrete type whose only games are on the
\* opponent side, one of them a recorded SECOND / LOSS: a first-seat win
C1_Witness ==
  /\ out.kind = "focus"
  /\ FocusType \in TypeNames
  /\ AsSelf(FocusDeck, FocusType, AnyResult, AnySeat) = 0
  /\ AsOpponent(FocusDeck, FocusType, {LOSS}, {SECOND}) > 0
  /\ out.own[1].first_wins > 0

\* C2: a type-blind archetype appears as often as it is my_deck plus as often
\* as it is opponent_deck, and its wins and losses add up to its appearances;
\* in the overview rows and in the own metrics of a type-blind focus report.
C2_Conservation ==
  /\ \A k \in 1..Len(out.overview) :
       LET row == out.overview[k]
       IN /\ row.appearances =
               Cardinality({i \in 1..Len(Df) : Df[i].my_deck = row.deck})
                 + Cardinality({i \in 1..Len(Df) : Df[i].opponent_deck = row.deck})
          /\ row.wins + row.losses = row.appearances
          /\ row.wins >= 0 /\ row.losses >= 0
  /\ \A k \in 1..Len(out.own) :
       TypeBlind =>
         /\ out.own[k].appearances =
              Cardinality({i \in 1..Len(Df) : Df[i].my_deck = FocusDeck})
                + Cardinality({i \in 1..Len(Df) : Df[i].opponent_deck = FocusDeck})
         /\ out.own[k].wins + out.own[k].losses = out.own[k].appearances
         /\ out.own[k].wins >= 0 /\ out.own[k].losses >= 0

\* an overview row of an archetype seen on both sides, with a win and a loss
C2_Witness ==
  \E k \in 1..Len(out.overview) :
    /\ \E i \in 1..Len(Df) : Df[i].my_deck = out.overview[k].deck
    /\ \E i \in 1..Len(Df) : Df[i].opponent_deck = out.overview[k].deck
                               /\ Df[i].my_deck # out.overview[k].deck
    /\ out.overview[k].wins > 0
    /\ out.overview[k].losses > 0

\* C3: a record adds exactly 1 to the appearances of a key that is on both of
\* its sides: the appearances of a key are the number of records that carry it
\* on at least one side.
C3_MirrorCountedOnce ==
  /\ \A k \in 1..Len(out.overview) :
       out.overview[k].appearances =
         Cardinality({i \in 1..Len(Df) :
                        \/ OnMySide(Df[i], out.overview[k].deck, ALL_TYPES_PLACEHOLDER)
                        \/ OnOpponentSide(Df[i], out.overview[k].deck, ALL_TYPES_PLACEHOLDER)})
  /\ \A k \in 1..Len(out.own) :
       out.own[k].appearances =
         Cardinality({i \in 1..Len(Df) : \/ OnMySide(Df[i], FocusDeck, FocusType)
                                         \/ OnOpponentSide(Df[i], FocusDeck, FocusType)})

\* ------------------------------------------------------------------------
\* Rows of a matchup table
\* ------------------------------------------------------------------------
PooledRows(table, deck) ==
  SelectSeq(table, LAMBDA row : row.opp_deck = deck /\ row.opp_type = ALL_TYPES_PLACEHOLDER)

SpecificRows(table, deck) ==
  SelectSeq(table, LAMBDA row : row.opp_deck = deck /\ row.opp_type # ALL_TYPES_PLACEHOLDER)

GamesOf(rows) == SeqSum([i \in 1..Len(rows) |-> rows[i].games])
WinsOf(rows) == SeqSum([i \in 1..Len(rows) |-> rows[i].wins])

\* number of analysed records that pair archetypes A and B, from either side
PairedRecords(A, B) ==
  Cardinality({i \in 1..Len(Df) :
                 \/ Df[i].my_deck = A /\ Df[i].opponent_deck = B
                 \/ Df[i].my_deck = B /\ Df[i].opponent_deck = A})

\* C4: for distinct archetypes A and B paired in N > 0 records, the wins of the
\* pooled B row of A's type-blind focus report plus the wins of the pooled A
\* row of B's type-blind focus report are N.
C4_Symmetry ==
  (out.kind = "focus" /\ TypeBlind) =>
    \A B \in DeckNames \ {FocusDeck} :
      PairedRecords(FocusDeck, B) > 0 =>
        LET mine == PooledRows(out.matchup, B)
            theirs == PooledRows(focus_report(Df, B, ALL_TYPES_PLACEHOLDER).matchup,
                                 FocusDeck)
        IN /\ Len(mine) = 1
           /\ Len(theirs) = 1
           /\ mine[1].wins + theirs[1].wins = PairedRecords(FocusDeck, B)

\* two records pair the focus with B, recorded once from each side, and each
\* archetype has won one of them
C4_Witness ==
  /\ out.kind = "focus" /\ TypeBlind
  /\ \E B \in DeckNames \ {FocusDeck} :
       /\ PairedRecords(FocusDeck, B) = 2
       /\ \E i \in 1..Len(Df) : Df[i].my_deck = B /\ Df[i].opponent_deck = FocusDeck
       /\ \E i \in 1..Len(Df) : Df[i].my_deck = FocusDeck /\ Df[i].opponent_deck = B
       /\ PooledRows(out.matchup, B)[1].wins = 1

\* C5: in a focus report, every opponent archetype of the table has one pooled
\* row, and its game count and win count are the sums over that archetype's
\* specific-type rows.
C5_PooledIsSumOfSpecifics ==
  \A k \in 1..Len(out.matchup) :
    LET B == out.matchup[k].opp_deck
        pooled == PooledRows(out.matchup, B)
        specific == SpecificRows(out.matchup, B)
    IN /\ Len(pooled) = 1
       /\ pooled[1].games = GamesOf(specific)
       /\ pooled[1].wins = WinsOf(specific)

\* an opponent archetype met in two types, one on each side of the records
C5_Witness ==
  \E k \in 1..Len(out.matchup) :
    LET B == out.matchup[k].opp_deck
    IN /\ Len(SpecificRows(out.matchup, B)) = 2
       /\ PooledRows(out.matchup, B)[1].games = 2
       /\ PooledRows(out.matchup, B)[1].wins = 1
       /\ \E i \in 1..Len(Df) : Df[i].my_deck = B /\ OnOpponentSide(Df[i], FocusDeck, FocusType)
       /\ \E i \in 1..Len(Df) : Df[i].opponent_deck = B /\ OnMySide(Df[i], FocusDeck, FocusType)

\* ------------------------------------------------------------------------
\* The two-record scenario: Alpha / Red beats Beta / Blue going first on turn
\* 5, and Beta / Blue going second loses to Alpha / Red on turn 7
\* ------------------------------------------------------------------------
IsScenarioFirst(r) ==
  /\ r.my_deck = "Alpha" /\ r.my_deck_type = "Red"
  /\ r.opponent_deck = "Beta" /\ r.opponent_deck_type = "Blue"
  /\ r.first_second = FIRST /\ r.result = WIN /\ r.finish_turn = 5

IsScenarioSecond(r) ==
  /\ r.my_deck = "Beta" /\ r.my_deck_type = "Blue"
  /\ r.opponent_deck = "Alpha" /\ r.opponent_deck_type = "Red"
  /\ r.first_second = SECOND /\ r.result = LOSS /\ r.finish_turn = 7

Scenario ==
  /\ Len(Df) = 2
  /\ \/ IsScenarioFirst(Df[1]) /\ IsScenarioSecond(Df[2])
     \/ IsScenarioFirst(Df[2]) /\ IsScenarioSecond(Df[1])
  /\ FocusDeck = "Alpha"
  /\ TypeBlind

\* C6: in the scenario the focus report for (Alpha, ALL) has 2 appearances,
\* 2 wins, 0 losses and a mean finish turn on win of 6.0.
C6_ScenarioOwnMetrics ==
  Scenario =>
    /\ out.kind = "focus"
    /\ out.own[1].appearances = 2
    /\ out.own[1].wins = 2
    /\ out.own[1].losses = 0
    /\ out.own[1].avg_win_turn # None
    /\ RatEq(out.own[1].avg_win_turn, <<6, 1>>)

C6_Witness == Scenario /\ out.kind = "focus" /\ out.own[1].avg_win_turn = <<12, 2>>

\* C7 as stated: in the scenario the first-seat win rate is 100 %, from 1 win
\* out of exactly 1 first-seat game.
C7_ScenarioFirstSeatOneOfOne ==
  Scenario =>
    /\ out.kind = "focus"
    /\ out.own[1].first_win_rate # None
    /\ RatEq(out.own[1].first_win_rate, <<1, 1>>)
    /\ out.own[1].first_wins = 1
    /\ out.own[1].first_games = 1

\* C7 amended: in the scenario the first-seat win rate is 100 %, from 2 wins
\* out of 2 first-seat games (Alpha went first in both games: Beta's recorded
\* SECOND is Alpha's FIRST), and there is no second-seat game.
C7_ScenarioFirstSeatTwoOfTwo ==
  Scenario =>
    /\ out.kind = "focus"
    /\ out.own[1].first_win_rate # None
    /\ RatEq(out.own[1].first_win_rate, <<1, 1>>)
    /\ out.own[1].first_wins = 2
    /\ out.own[1].first_games = 2
    /\ out.own[1].second_games = 0
    /\ out.own[1].second_win_rate = None

C7_Witness == Scenario /\ out.kind = "focus" /\ out.own[1].first_win_rate = <<2, 2>>

\* C8 as stated: in the scenario the matchup table has exactly one row, for
\* Beta / Blue, with 2 games and 2 wins.
C8_ScenarioOneMatchupRow ==
  Scenario =>
    /\ Len(out.matchup) = 1
    /\ out.matchup[1].opp_deck = "Beta"
    /\ out.matchup[1].opp_type = "Blue"
    /\ out.matchup[1].games = 2
    /\ out.matchup[1].wins = 2

\* C8 amended: in the scenario the matchup table has exactly two rows, the
\* pooled row of Beta followed by the one specific-type row Beta / Blue, each
\* with 2 games and 2 wins.
C8_ScenarioPooledAndSpecificRow ==
  Scenario =>
    /\ Len(out.matchup) = 2
    /\ out.matchup[1].opp_deck = "Beta"
    /\ out.matchup[1].opp_type = ALL_TYPES_PLACEHOLDER
    /\ out.matchup[1].games = 2
    /\ out.matchup[1].wins = 2
    /\ out.matchup[2].opp_deck = "Beta"
    /\ out.matchup[2].opp_type = "Blue"
    /\ out.matchup[2].games = 2
    /\ out.matchup[2].wins = 2

C8_Witness == Scenario /\ Len(out.matchup) = 2 /\ out.matchup[2].opp_type = "Blue"

\* ------------------------------------------------------------------------
\* Data absence
\* ------------------------------------------------------------------------
\* record r passes the selected season and environment filters
Selected(r) ==
  /\ ana_season_filter = SELECT_PLACEHOLDER \/ r.season = ana_season_filter
  /\ ana_environment_filter = {} \/ r.environment \in ana_environment_filter

NothingRendered ==
  /\ out.overview = <<>>
  /\ out.own = <<>>
  /\ out.matchup = <<>>
  /\ out.memo = <<>>

\* C9: when the table is empty or no record passes the filters, the run ends
\* with the 'no records' / 'no match' notice and renders no overview row and
\* no focus report, whatever the filter and focus selections are.
C9_DataAbsence ==
  (\A i \in 1..Len(original_df) : ~Selected(original_df[i])) =>
    /\ out.kind \in {"no_records", "no_match"}
    /\ out.kind = "no_records" <=> original_df = <<>>
    /\ NothingRendered

\* a table with records, none of which passes the filters, and a focus selected
C9_Witness ==
  /\ original_df # <<>>
  /\ \A i \in 1..Len(original_df) : ~Selected(original_df[i])
  /\ FocusDeck \in DeckNames
  /\ out.kind = "no_match"

\* C10: a selected focus key that is on neither side of any analysed record
\* yields the 'not found' notice: no own metrics, no matchup row, no memo row.
C10_FocusWithoutRecords ==
  (/\ FocusDeck \in DeckNames
   /\ \A i \in 1..Len(Df) : /\ ~OnMySide(Df[i], FocusDeck, FocusType)
                            /\ ~OnOpponentSide(Df[i], FocusDeck, FocusType)) =>
    /\ out.kind \in {"focus_not_found", "no_match", "no_records"}
    /\ Df # <<>> => out.kind = "focus_not_found"
    /\ NothingRendered

\* records are analysed, the focus key (with a concrete type) matches none
C10_Witness ==
  /\ Df # <<>>
  /\ FocusDeck \in DeckNames
  /\ FocusType \in TypeNames
  /\ \E i \in 1..Len(Df) : Df[i].my_deck = FocusDeck
  /\ \A i \in 1..Len(Df) : /\ ~OnMySide(Df[i], FocusDeck, FocusType)
                           /\ ~OnOpponentSide(Df[i], FocusDeck, FocusType)
  /\ out.kind = "focus_not_found"

\* ------------------------------------------------------------------------
\* Reference means of finish turns
\* ------------------------------------------------------------------------
RECURSIVE TurnSum(_)
TurnSum(S) ==
  IF S = {} THEN 0
  ELSE LET i == CHOOSE j \in S : TRUE IN Df[i].finish_turn + TurnSum(S \ {i})

\* mean finish turn over the records of index set S that have a finish turn
DefinedTurnMean(S) ==
  LET D == {i \in S : Df[i].finish_turn # 0}
  IN IF D = {} THEN None ELSE <<TurnSum(D), Cardinality(D)>>

\* the opponent of the focus in record r is deck B (of type T, unless T is ALL),
\* with the focus on the my side (case 1) or on the opponent side (case 2)
Case1(r, B, T) ==
  /\ OnMySide(r, FocusDeck, FocusType)
  /\ r.opponent_deck = B
  /\ T = ALL_TYPES_PLACEHOLDER \/ r.opponent_deck_type = T

Case2(r, B, T) ==
  /\ OnOpponentSide(r, FocusDeck, FocusType)
  /\ r.my_deck = B
  /\ T = ALL_TYPES_PLACEHOLDER \/ r.my_deck_type = T

\* C11: a record without finish_turn is left out of every mean finish turn
\* (own metrics and every matchup row, on win and on loss) but is counted in
\* the games and wins; a mean over no defined turn is None.  A record on both
\* sides of the key is a win on one side and a loss on the other, so the index
\* sets below never count a turn twice.
C11_AbsentTurnExcluded ==
  /\ \A k \in 1..Len(out.own) :
       /\ out.own[k].avg_win_turn =
            DefinedTurnMean({i \in 1..Len(Df) :
              \/ OnMySide(Df[i], FocusDeck, FocusType) /\ Df[i].result = WIN
              \/ OnOpponentSide(Df[i], FocusDeck, FocusType) /\ Df[i].result = LOSS})
       /\ out.own[k].wins =
            AsSelf(FocusDeck, FocusType, {WIN}, AnySeat)
              + AsOpponent(FocusDeck, FocusType, {LOSS}, AnySeat)
       /\ out.own[k].appearances =
            AsSelf(FocusDeck, FocusType, AnyResult, AnySeat)
              + AsOpponent(FocusDeck, FocusType, AnyResult, AnySeat)
  /\ \A k \in 1..Len(out.matchup) :
       LET row == out.matchup[k]
           B == row.opp_deck
           T == row.opp_type
       IN /\ row.avg_win_turn =
               DefinedTurnMean({i \in 1..Len(Df) :
                 \/ Case1(Df[i], B, T) /\ Df[i].result = WIN
                 \/ Case2(Df[i], B, T) /\ Df[i].result = LOSS})
          /\ row.avg_loss_turn =
               DefinedTurnMean({i \in 1..Len(Df) :
                 \/ Case1(Df[i], B, T) /\ Df[i].result = LOSS
                 \/ Case2(Df[i], B, T) /\ Df[i].result = WIN})
          /\ row.games =
               Cardinality({i \in 1..Len(Df) : Case1(Df[i], B, T)})
                 + Cardinality({i \in 1..Len(Df) : Case2(Df[i], B, T)})

\* the focus has won two games, one of them without finish_turn: the mean is
\* taken over the other one only
C11_Witness ==
  /\ out.kind = "focus"
  /\ out.own[1].wins = 2
  /\ out.own[1].avg_win_turn # None
  /\ out.own[1].avg_win_turn[2] = 1
  /\ \E k \in 1..Len(out.matchup) :
       /\ out.matchup[k].wins = 2
       /\ out.matchup[k].avg_win_turn # None
       /\ out.matchup[k].avg_win_turn[2] = 1

\* ------------------------------------------------------------------------
\* Rates of the output
\* ------------------------------------------------------------------------
\* rate r is wins out of games when there are games, and None when there are none
RateOrNoData(r, games) ==
  IF games = 0 THEN r = None
  ELSE r # None /\ r[2] = games /\ r[1] >= 0 /\ r[1] <= games

\* C12: every rate of the output has a denominator greater than 0: the overall
\* rates are wins out of the (non-zero) games of their row, the first-seat and
\* second-seat rates are None exactly when there is no first-seat, respectively
\* no second-seat, game, each on its own, and the average matchup win rate is
\* None or a fraction with a non-zero denominator.
C12_NoDataNotZero ==
  /\ \A k \in 1..Len(out.overview) :
       LET row == out.overview[k]
       IN /\ row.appearances > 0
          /\ row.win_rate = <<row.wins, row.appearances>>
          /\ RateOrNoData(row.first_win_rate, row.first_games)
          /\ RateOrNoData(row.second_win_rate, row.appearances - row.first_games)
          /\ row.avg_matchup_wr # None => row.avg_matchup_wr[2] > 0
  /\ \A k \in 1..Len(out.own) :
       LET own == out.own[k]
       IN /\ own.appearances > 0
          /\ own.win_rate = <<own.wins, own.appearances>>
          /\ own.first_games + own.second_games = own.appearances
          /\ RateOrNoData(own.first_win_rate, own.first_games)
          /\ RateOrNoData(own.second_win_rate, own.second_games)
  /\ \A k \in 1..Len(out.matchup) :
       LET row == out.matchup[k]
       IN /\ row.games > 0
          /\ row.win_rate = <<row.wins, row.games>>
          /\ RateOrNoData(row.first_win_rate, row.first_games)
          /\ RateOrNoData(row.second_win_rate, row.games - row.first_games)

\* a focus that never went first and lost all its second-seat games: the
\* first-seat rate is None while the second-seat rate is a reported 0 %
C12_Witness ==
  /\ out.kind = "focus"
  /\ out.own[1].first_win_rate = None
  /\ out.own[1].second_win_rate = <<0, 2>>
  /\ \E k \in 1..Len(out.matchup) :
       /\ out.matchup[k].first_win_rate = None
       /\ out.matchup[k].second_win_rate # None
       /\ out.matchup[k].second_win_rate[1] = 0

\* ------------------------------------------------------------------------
\* A second run of the page on a sheet with three archetypes, blank and
\* whitespace-only cells and a type that is called like the 'all types' option
\* ------------------------------------------------------------------------
NameDecks == DeckNames \cup {"Gamma", " "}
NameTypes == TypeNames \cup {" "}

NamePool ==
  {Rec("S1", "Alpha", "Red", "Beta", "Blue", FIRST, WIN, 5, "nan", 1),
   Rec("S1", "Gamma", "Red", "Beta", "Blue", FIRST, WIN, 5, "nan", 1),
   Rec("S1", "Alpha", "Red", "Gamma", "Red", FIRST, LOSS, 7, "nan", 1),
   Rec("S1", "Beta", "Red", "Alpha", "Blue", SECOND, WIN, 5, "nan", 1),
   Rec("S1", "Alpha", "Red", "Alpha", "Blue", SECOND, WIN, 5, "nan", 1),
   Rec("S1", "Alpha", " ", " ", "Red", FIRST, WIN, 5, "nan", 1),
   Rec("S1", "Alpha", "Red", "Beta", ALL_TYPES_PLACEHOLDER, FIRST, LOSS, 7, "nan", 1),
   Rec("S1", "Beta", "Red", "nan", "nan", FIRST, WIN, 5, "nan", 1),
   Rec("S1", "Alpha", "nan", "Beta", "Red", SECOND, LOSS, 7, "nan", 1)}

NextNames ==
  \/ \E r \in NamePool : LoadGrown(r)
  \/ LoadFailed
  \/ \E d \in {SELECT_PLACEHOLDER} \cup NameDecks : SelectFocusDeck(d)
  \/ \E t \in {ALL_TYPES_PLACEHOLDER} \cup NameTypes : SelectFocusType(t)

SpecNames == Init /\ [][NextNames]_vars

\* ------------------------------------------------------------------------
\* Reference value of the average matchup win rate
\* ------------------------------------------------------------------------
\* a name that is not empty, whitespace-only or the 'nan' of a blank cell
NonBlank(name) == Strip(name) # "" /\ Lower(Strip(name)) # "nan"

\* the archetypes other than A that A has faced in an analysed record
OpponentsOf(A) ==
  {B \in {Df[i].my_deck : i \in 1..Len(Df)} \cup {Df[i].opponent_deck : i \in 1..Len(Df)} :
     /\ B # A
     /\ NonBlank(B)
     /\ PairedRecords(A, B) > 0}

\* wins of A in the records that pair A and B
PairedWins(A, B) ==
  Cardinality({i \in 1..Len(Df) :
                 \/ Df[i].my_deck = A /\ Df[i].opponent_deck = B /\ Df[i].result = WIN
                 \/ Df[i].my_deck = B /\ Df[i].opponent_deck = A /\ Df[i].result = LOSS})

\* sum over B in S of PairedWins(A, B) / PairedRecords(A, B), as one fraction
RECURSIVE PairedRateSum(_, _)
PairedRateSum(A, S) ==
  IF S = {} THEN <<0, 1>>
  ELSE LET B == CHOOSE x \in S : TRUE
           t == PairedRateSum(A, S \ {B})
       IN <<PairedWins(A, B) * t[2] + t[1] * PairedRecords(A, B), PairedRecords(A, B) * t[2]>>

C14_OverviewStableOrder ==
  \A i \in 1..Len(out.overview) : \A j \in 1..Len(out.overview) :
    i < j =>
      LET x == out.overview[i]
          y == out.overview[j]
      IN /\ x.avg_matchup_wr = None => y.avg_matchup_wr = None
         /\ (x.avg_matchup_wr # None /\ y.avg_matchup_wr # None)
              => ~RatGreater(y.avg_matchup_wr, x.avg_matchup_wr)
         /\ (OverviewTie(x, y) \/ (x.avg_matchup_wr = None /\ y.avg_matchup_wr = None))
              => StrLess(x.deck, y.deck)

\* the rows of the rendered matchup table for one opponent archetype
MatchupBlock(deck) == SelectSeq(out.matchup, LAMBDA row : row.opp_deck = deck)

\* the pooled-tier row computed for one opponent archetype
PooledTierRows(deck) ==
  SelectSeq(matchup_df_all_types(focus_as_my_deck_games(Df, FocusDeck, FocusType),
                                 focus_as_opponent_deck_games(Df, FocusDeck, FocusType)),
            LAMBDA row : row.opp_deck = deck)

\* the specific-tier rows computed for one opponent archetype
SpecificTierRows(deck) ==
  SelectSeq(matchup_df_specific_types(focus_as_my_deck_games(Df, FocusDeck, FocusType),
                                      focus_as_opponent_deck_games(Df, FocusDeck, FocusType)),
            LAMBDA row : row.opp_deck = deck)

\* C15: the matchup table is ordered by opponent archetype name; within one
\* archetype the pooled 'all types' row comes first, directly followed by that
\* archetype's type-specific rows in the order of their type names, whatever
\* type names the data holds.
C15_MatchupOrder ==
  out.kind = "focus" =>
    /\ \A i \in 1..Len(out.matchup) : \A j \in 1..Len(out.matchup) :
         i < j => ~StrLess(out.matchup[j].opp_deck, out.matchup[i].opp_deck)
    /\ \A k \in 1..Len(out.matchup) :
         LET block == MatchupBlock(out.matchup[k].opp_deck)
             specific == SpecificTierRows(out.matchup[k].opp_deck)
         IN /\ block = PooledTierRows(out.matchup[k].opp_deck) \o specific
            /\ \A i \in 1..Len(specific) : \A j \in 1..Len(specific) :
                 i < j => StrLess(specific[i].opp_type, specific[j].opp_type)

\* ------------------------------------------------------------------------
\* A third run of the page on a sheet with memos, dated and undated records,
\* two seasons and two environments
\* ------------------------------------------------------------------------
MemoEnvNames == {"E1", "E2"}

RecIn(environment, r) == [r EXCEPT !.environment = environment]

MemoPool ==
  {RecIn("E1", Rec("S1", "Alpha", "Red", "Beta", "Blue", FIRST, WIN, 5, "note", 1)),
   RecIn("E2", Rec("S1", "Alpha", "Red", "Beta", "Blue", SECOND, LOSS, 7, "note", 2)),
   RecIn("E1", Rec("S2", "Beta", "Blue", "Alpha", "Red", FIRST, WIN, 5, "note", 0)),
   RecIn("E1", Rec("S1", "Alpha", "Red", "Alpha", "Red", FIRST, WIN, 5, "note", 2)),
   RecIn("E2", Rec("S2", "Alpha", "Red", "Beta", "Blue", FIRST, WIN, 5, "nan", 1)),
   RecIn("E1", Rec("S1", "Beta", "Blue", "Alpha", "Red", SECOND, LOSS, 7, " ", 1)),
   RecIn("E2", Rec("S1", "Alpha", "Blue", "Beta", "Red", SECOND, WIN, 0, "note", 0))}

NextMemo ==
  \/ \E r \in MemoPool : LoadGrown(r)
  \/ LoadFailed
  \/ \E s \in {SELECT_PLACEHOLDER} \cup SeasonNames : SelectSeason(s)
  \/ \E envs \in SUBSET MemoEnvNames : SelectEnvironments(envs)
  \/ \E d \in {SELECT_PLACEHOLDER} \cup DeckNames : SelectFocusDeck(d)
  \/ \E t \in {ALL_TYPES_PLACEHOLDER} \cup TypeNames : SelectFocusType(t)

SpecMemo == Init /\ [][NextMemo]_vars

\* the analysed records that carry a memo and have the focus on either side
MemoRecords ==
  {i \in 1..Len(Df) :
     /\ OnMySide(Df[i], FocusDeck, FocusType) \/ OnOpponentSide(Df[i], FocusDeck, FocusType)
     /\ Strip(Df[i].memo) # ""
     /\ Lower(Df[i].memo) # "nan"}

\* C16: the memo list holds every record of the focus's two subsets that
\* carries a memo exactly once: a record on both sides appears once, and two
\* records with the same field values appear twice.
C16_MemoByRecordIdentity ==
  out.kind = "focus" =>
    /\ Len(out.memo) = Cardinality(MemoRecords)
    /\ \A i \in MemoRecords :
         \E k \in 1..Len(out.memo) : out.memo[k] = [Df[i] EXCEPT !.date = strftime(@)]

\* C17: the memo list is in descending order of the match date and every
\* undated row comes after every dated row.
C17_MemoOrder ==
  \A i \in 1..Len(out.memo) : \A j \in 1..Len(out.memo) :
    i < j =>
      /\ out.memo[i].date = "NaT" => out.memo[j].date = "NaT"
      /\ (out.memo[i].date # "NaT" /\ out.memo[j].date # "NaT")
           => ~StrLess(out.memo[i].date, out.memo[j].date)

\* the sheet lists an undated memo before an older and a newer one has moved up
C17_Witness ==
  /\ Len(out.memo) = 2
  /\ out.memo[1].date = "2025-01-01"
  /\ out.memo[2].date = "2024-12-31"
  /\ Df[1].date = 1

\* C20: the analysed table is the loaded table restricted, in order and
\* without change, to the rows whose season is the selected one (any season
\* when none is selected) and whose environment is among the selected ones
\* (any environment when none is selected); what is rendered is what the
\* unfiltered analysis of exactly these rows renders.
C20_PlainRowSelection ==
  /\ Df = SelectSeq(original_df, Selected)
  /\ Df # <<>> =>
       out = show_analysis_section(SelectSeq(original_df, Selected), SELECT_PLACEHOLDER, {},
                                   FocusDeck, FocusType)

\* a season and an environment are selected, one of two rows passes and is
\* the one analysed
C20_Witness ==
  /\ Len(original_df) = 2
  /\ ana_season_filter = "S1"
  /\ ana_environment_filter = {"E2"}
  /\ Len(Df) = 1
  /\ Df[1] = original_df[2]
  /\ out.kind = "overview"
  /\ Len(out.overview) = 2

\* the names in either deck column of the analysed records
DeckCells == {Df[i].my_deck : i \in 1..Len(Df)} \cup {Df[i].opponent_deck : i \in 1..Len(Df)}

\* the types recorded for archetype A on the side where A stands
TypeCellsOf(A) ==
  {Df[i].my_deck_type : i \in {j \in 1..Len(Df) : Df[j].my_deck = A}}
    \cup {Df[i].opponent_deck_type : i \in {j \in 1..Len(Df) : Df[j].opponent_deck = A}}

StrictlySorted(list) ==
  \A i \in 1..Len(list) : \A j \in 1..Len(list) : i < j => StrLess(list[i], list[j])

\* C18: the archetype list is sorted, free of duplicates and holds exactly the
\* names of either deck column that are not empty, whitespace-only or the mark
\* of a blank cell.
C18_DeckDiscovery ==
  LET names == get_all_analyzable_deck_names(Df)
  IN /\ StrictlySorted(names)
     /\ Range(names) = {d \in DeckCells : NonBlank(d)}

\* C19: the type list of an archetype A starts with the 'all types' option,
\* followed by the sorted, duplicate-free list of exactly the non-blank types
\* recorded on A's own side of a record.
C19_TypeDiscovery ==
  \A A \in {d \in DeckCells : NonBlank(d)} :
    LET types == get_all_types_for_archetype(Df, A)
    IN /\ Len(types) >= 1
       /\ types[1] = ALL_TYPES_PLACEHOLDER
       /\ StrictlySorted(Tail(types))
       /\ Range(Tail(types)) = {t \in TypeCellsOf(A) : NonBlank(t)}

\* the run computed the overview / the focus report (which is the empty report
\* when the focus has no record)
OverviewComputed == out.kind = "overview" \/ out.overview # <<>>
FocusReportComputed ==
  out.kind \in {"focus", "focus_not_found"} \/ out.own # <<>> \/ out.matchup # <<>> \/ out.memo # <<>>

\* C21: when some record passes the filters, the run computes the overview
\* exactly when no focus archetype is selected and the focus report exactly
\* when one is selected; never both and never neither.
C21_OverviewXorFocus ==
  Df # <<>> =>
    /\ OverviewComputed <=> FocusDeck = SELECT_PLACEHOLDER
    /\ FocusReportComputed <=> FocusDeck # SELECT_PLACEHOLDER
    /\ ~(OverviewComputed /\ FocusReportComputed)
    /\ OverviewComputed \/ FocusReportComputed

\* a focus is selected on a filtered table that also holds another archetype:
\* the report is rendered and no overview row is
C21_Witness ==
  /\ Df # <<>>
  /\ FocusDeck = "Alpha"
  /\ out.kind = "focus"
  /\ out.own # <<>>
  /\ out.overview = <<>>
  /\ display_general_deck_performance(Df) # <<>>
  /\ ana_season_filter = "S1"

\* a rate is 'no data' or wins out of a positive number of games, 0 <= wins <= games
RateInRange(r) == r = None \/ (r[2] > 0 /\ 0 <= r[1] /\ r[1] <= r[2])

\* a turn mean is 'no data' or the mean of at least one turn number >= 1
TurnMeanDefined(m) == m = None \/ (m[2] > 0 /\ m[1] >= m[2])

\* C22: every rate of every overview row, of the focus's own metrics and of
\* every matchup row is wins out of games with 0 <= wins <= games (a
\* percentage in [0, 100]) or 'no data'; every turn mean is the mean of
\* defined turns or 'no data'; the counts behind them are not negative.
C22_OutputRange ==
  /\ \A k \in 1..Len(out.overview) :
       LET row == out.overview[k]
       IN /\ row.win_rate # None /\ RateInRange(row.win_rate)
          /\ RateInRange(row.avg_matchup_wr)
          /\ RateInRange(row.first_win_rate)
          /\ RateInRange(row.second_win_rate)
          /\ 0 <= row.wins /\ row.wins <= row.appearances /\ row.losses >= 0
          /\ row.first_games <= row.appearances
  /\ \A k \in 1..Len(out.own) :
       LET row == out.own[k]
       IN /\ row.win_rate # None /\ RateInRange(row.win_rate)
          /\ RateInRange(row.first_win_rate)
          /\ RateInRange(row.second_win_rate)
          /\ TurnMeanDefined(row.avg_win_turn)
          /\ 0 <= row.wins /\ row.wins <= row.appearances /\ row.losses >= 0
  /\ \A k \in 1..Len(out.matchup) :
       LET row == out.matchup[k]
       IN /\ row.win_rate # None /\ RateInRange(row.win_rate)
          /\ RateInRange(row.first_win_rate)
          /\ RateInRange(row.second_win_rate)
          /\ TurnMeanDefined(row.avg_win_turn)
          /\ TurnMeanDefined(row.avg_loss_turn)
          /\ 0 <= row.wins /\ row.wins <= row.games

\* a focus report whose matchup row has a rate strictly inside the range, a
\* seat without games and both turn means defined
C22_Witness ==
  /\ out.kind = "focus"
  /\ \E k \in 1..Len(out.matchup) :
       /\ out.matchup[k].win_rate = <<1, 2>>
       /\ out.matchup[k].second_win_rate = None
       /\ out.matchup[k].first_win_rate = <<1, 2>>
       /\ out.matchup[k].avg_win_turn # None
       /\ out.matchup[k].avg_loss_turn # None
  /\ out.own[1].avg_win_turn # None

\* a step that runs the overview again on the record set of the run before
OverviewRepeated ==
  /\ out.kind = "overview"
  /\ out'.kind = "overview"
  /\ Df' = Df

SharedFigures(row) ==
  <<row.appearances, row.wins, row.losses, row.win_rate, row.first_games,
    row.first_win_rate, row.second_win_rate>>

\* the own metrics of the focus report for (A, all types) on the analysed records
OwnMetricsOf(A) == focus_report(Df, A, ALL_TYPES_PLACEHOLDER).own

\* C26: for every archetype with an appearance in the analysed records, the
\* overview row and the own metrics of the focus report for that archetype and
\* all types give the same appearances, wins, losses, win rate, first-seat
\* game count, first-seat win rate and second-seat win rate.
C26_OverviewAgreesWithFocus ==
  /\ \A k \in 1..Len(out.overview) :
       /\ OwnMetricsOf(out.overview[k].deck) # <<>>
       /\ SharedFigures(OwnMetricsOf(out.overview[k].deck)[1]) = SharedFigures(out.overview[k])
  /\ (out.kind = "focus" /\ TypeBlind) =>
       \E k \in 1..Len(display_general_deck_performance(Df)) :
         /\ display_general_deck_performance(Df)[k].deck = FocusDeck
         /\ SharedFigures(display_general_deck_performance(Df)[k]) = SharedFigures(out.own[1])

\* an overview with an archetype that played on both sides and in both seats
C26_Witness ==
  /\ out.kind = "overview"
  /\ \E k \in 1..Len(out.overview) :
       /\ out.overview[k].appearances = 2
       /\ out.overview[k].first_win_rate # None
       /\ out.overview[k].second_win_rate # None
       /\ Cardinality({i \in 1..Len(Df) : Df[i].opponent_deck = out.overview[k].deck}) = 2

\* every deck cell of the analysed records holds a name
AllDeckNamesNonBlank ==
  \A i \in 1..Len(Df) : NonBlank(Df[i].my_deck) /\ NonBlank(Df[i].opponent_deck)

\* the rows of the pooled tier of the focus report
AllPooledRows ==
  matchup_df_all_types(focus_as_my_deck_games(Df, FocusDeck, FocusType),
                       focus_as_opponent_deck_games(Df, FocusDeck, FocusType))

\* C27: in a focus report over records without blank deck names, the game
\* counts of the pooled rows add up to the appearances of the focus and their
\* win counts to its wins, mirror matches of the focus archetype included.
C27_PooledRowsCoverFocus ==
  (out.kind = "focus" /\ AllDeckNamesNonBlank) =>
    /\ \A k \in 1..Len(AllPooledRows) : AllPooledRows[k] \in Range(out.matchup)
    /\ GamesOf(AllPooledRows) = out.own[1].appearances
    /\ WinsOf(AllPooledRows) = out.own[1].wins

\* a focus that met another archetype and itself
C27_Witness ==
  /\ out.kind = "focus"
  /\ AllDeckNamesNonBlank
  /\ Len(AllPooledRows) = 2
  /\ \E k \in 1..Len(AllPooledRows) : AllPooledRows[k].opp_deck = FocusDeck
  /\ out.own[1].appearances = 3

\* ------------------------------------------------------------------------
\* Runs of load_data against the sheets it can meet
\* ------------------------------------------------------------------------
\* headers: canonical columns with some of them missing, with or without a
\* column load_data does not know, in sheet order or with that column first
MissingSets == SUBSET {"season", "date", "finish_turn"}
ExtraColumns == {<<>>, <<"player">>}

Header(missing, extra, extra_first) ==
  LET kept == SelectSeq(COLUMNS, LAMBDA col : col \notin missing)
  IN IF extra_first THEN extra \o kept ELSE kept \o extra

HeaderPool ==
  {Header(missing, extra, extra_first) :
     missing \in MissingSets, extra \in ExtraColumns, extra_first \in BOOLEAN}
    \cup {<<"player", "deck">>, <<"memo", "season">>}

\* one call of load_data in the given environment
Load(client, read, header, row_count) ==
  /\ worksheet' = [client |-> client, read |-> read, header |-> header, row_count |-> row_count]
  /\ loaded' = load_data(client, read, header, row_count)
  /\ UNCHANGED <<analysis_vars, login_vars, merge_vars>>

LoadWithoutClient ==
  \E header \in HeaderPool, n \in 0..MaxSheetRows : Load(NO_CLIENT, READ_OK, header, n)

LoadSpreadsheetNotFound ==
  \E header \in HeaderPool, n \in 0..MaxSheetRows : Load(CLIENT, SpreadsheetNotFound, header, n)

LoadWorksheetNotFound ==
  \E header \in HeaderPool, n \in 0..MaxSheetRows : Load(CLIENT, WorksheetNotFound, header, n)

LoadOtherFailure ==
  \E header \in HeaderPool, n \in 0..MaxSheetRows : Load(CLIENT, OtherException, header, n)

LoadSheet ==
  \E header \in HeaderPool, n \in 0..MaxSheetRows : Load(CLIENT, READ_OK, header, n)

NextLoad ==
  \/ LoadWithoutClient
  \/ LoadSpreadsheetNotFound
  \/ LoadWorksheetNotFound
  \/ LoadOtherFailure
  \/ LoadSheet

SpecLoad == Init /\ [][NextLoad]_vars

MainRun(cookie_readable, login_button, typed) ==
  LET run == card_tracker_main(authenticated, auth_password, cookie_readable,
                               login_button, typed)
  IN /\ authenticated' = run.authenticated
     /\ auth_password' = run.cookie
     /\ main_page' = run.page
     /\ password_input' = IF login_button THEN typed ELSE password_input
     /\ failed_logins' = IF run.page = LOGIN_ERROR THEN failed_logins + 1 ELSE failed_logins
     /\ UNCHANGED <<analysis_page, analysis_vars, load_vars, merge_vars>>

\* the main page is opened or rerun without a submission
OpenMainPage(cookie_readable) ==
  /\ main_page # RECORDS \/ ~authenticated
  /\ MainRun(cookie_readable, FALSE, "")

\* the login form, displayed by the run before, is submitted
SubmitPassword(typed) ==
  /\ main_page \in {LOGIN_FORM, LOGIN_ERROR}
  /\ failed_logins < MaxFailedLogins
  /\ MainRun(TRUE, TRUE, typed)

\* the run stops at `if not cookies.ready(): st.stop()` before main is called
MainPageCookiesNotReady ==
  /\ main_page # NOTHING
  /\ main_page' = NOTHING
  /\ UNCHANGED <<authenticated, auth_password, password_input, analysis_page,
                 failed_logins, analysis_vars, load_vars, merge_vars>>

\* the analysis page is opened from the sidebar or by its address
OpenAnalysisPage ==
  /\ analysis_page' = analysis_page_main(authenticated)
  /\ analysis_page # analysis_page'
  /\ UNCHANGED <<authenticated, auth_password, password_input, main_page,
                 failed_logins, analysis_vars, load_vars, merge_vars>>

\* the browser loses the cookie, or still holds the one of an earlier password
BrowserCookie(value) ==
  /\ value \in {"", "old"}
  /\ value # auth_password
  /\ auth_password' = value
  /\ UNCHANGED <<authenticated, password_input, main_page, analysis_page,
                 failed_logins, analysis_vars, load_vars, merge_vars>>

\* a new session of the same browser: the session state is gone, the cookie is not
NewSession ==
  /\ main_page # NOTHING \/ analysis_page # NOTHING
  /\ authenticated' = FALSE
  /\ password_input' = ""
  /\ main_page' = NOTHING
  /\ analysis_page' = NOTHING
  /\ failed_logins' = 0
  /\ UNCHANGED <<auth_password, analysis_vars, load_vars, merge_vars>>

NextLogin ==
  \/ \E cookie_readable \in BOOLEAN : OpenMainPage(cookie_readable)
  \/ \E typed \in PasswordInputs : SubmitPassword(typed)
  \/ MainPageCookiesNotReady
  \/ OpenAnalysisPage
  \/ \E value \in CookieValues : BrowserCookie(value)
  \/ NewSession

SpecLogin == Init /\ [][NextLogin]_vars

\* a step in which the session becomes authenticated
BecomesAuthenticated == ~authenticated /\ authenticated'

\* C28: the main page displays the records only to an authenticated session;
\* the session becomes authenticated only by a submission of the correct
\* password or with a cookie that holds it, so wrong submissions without such
\* a cookie leave it unauthenticated and without records.
C28_LoginGate ==
  /\ [](main_page = RECORDS => authenticated)
  /\ [][BecomesAuthenticated =>
          \/ auth_password = CORRECT_PASSWORD
          \/ password_input' = CORRECT_PASSWORD /\ main_page \in {LOGIN_FORM, LOGIN_ERROR}]_vars
  /\ []((failed_logins > 0 /\ main_page = LOGIN_ERROR) => ~authenticated)

\* the form was submitted with wrong passwords, with a stale cookie in the
\* browser, and the session is still at the form
C28_Witness ==
  /\ failed_logins = MaxFailedLogins
  /\ auth_password = "old"
  /\ password_input = "guess"
  /\ main_page = LOGIN_ERROR
  /\ ~authenticated

\* C29: no page displays match records to a session that is not
\* authenticated; the analysis page displays them only after the login gate
\* of the main page has been passed.
C29_AnalysisBehindLogin == analysis_page = RECORDS => authenticated

\* ------------------------------------------------------------------------
\* Runs of the player page on the sheets it can meet
\* ------------------------------------------------------------------------
Player(name, twitter, team, nickname) ==
  [player_name |-> name, TwitterID |-> twitter, team |-> team, nickname |-> nickname]

\* two players with nicknames, and a second row for the name of the first
PlayerPool ==
  {Player("Taro", "@taro", "TeamA", "T"),
   Player("Jiro", "@jiro", "TeamB", "J"),
   Player("Taro", "@taro2", "TeamC", "T2")}

\* the names a record row can carry: a player name, two nicknames, a name
\* nobody has, or nothing at all (a blank row of the sheet)
RecordNames == {"Taro", "T", "J", "Zed", BLANK_ROW}

record_df == load_data_from_sheet(record_sheet)

\* a run of the page that finds one more row in the player sheet
PlayerRowAdded(pl) ==
  /\ Len(player_df) < MaxPlayers
  /\ player_df' = Append(player_df, pl)
  /\ record_sheet' = record_sheet
  /\ merged' = merge_player_records(player_df', load_data_from_sheet(record_sheet'))
  /\ UNCHANGED <<analysis_vars, load_vars, login_vars>>

\* a run of the page that finds one more row in the record sheet
RecordRowAdded(name) ==
  /\ Len(record_sheet) < MaxRecordSheetRows
  /\ record_sheet' = Append(record_sheet, name)
  /\ player_df' = player_df
  /\ merged' = merge_player_records(player_df', load_data_from_sheet(record_sheet'))
  /\ UNCHANGED <<analysis_vars, load_vars, login_vars>>

\* a run of the page that finds both sheets emptied
SheetsEmptied ==
  /\ player_df # <<>> \/ record_sheet # <<>>
  /\ player_df' = <<>>
  /\ record_sheet' = <<>>
  /\ merged' = merge_player_records(player_df', load_data_from_sheet(record_sheet'))
  /\ UNCHANGED <<analysis_vars, load_vars, login_vars>>

NextMerge ==
  \/ \E pl \in PlayerPool : PlayerRowAdded(pl)
  \/ \E name \in RecordNames : RecordRowAdded(name)
  \/ SheetsEmptied

SpecMerge == Init /\ [][NextMerge]_vars

\* the players whose name, and whose nickname, is the given record name
PlayersNamed(name) == {i \in 1..Len(player_df) : player_df[i].player_name = name}
PlayersNicknamed(name) == {i \in 1..Len(player_df) : player_df[i].nickname = name}

BothSheetsHaveRows == player_df # <<>> /\ record_df # <<>>

\* C24: every record whose name is no player's name but some player's
\* nickname carries that player's TwitterID, team and nickname in the merged
\* table, also when several such records use the same nickname.
C24_NicknameFallback ==
  BothSheetsHaveRows =>
    \A i \in 1..Len(record_df) :
      (PlayersNamed(record_df[i].player_name) = {}
         /\ PlayersNicknamed(record_df[i].player_name) # {})
      => /\ merged.raised = ""
         /\ i <= Len(merged.rows)
         /\ \E j \in PlayersNicknamed(record_df[i].player_name) :
              /\ merged.rows[i].TwitterID = player_df[j].TwitterID
              /\ merged.rows[i].team = player_df[j].team
              /\ merged.rows[i].nickname = player_df[j].nickname

\* C30: when both sheets have rows, the merged table has one row per record,
\* in the order of the records, whatever the labels of the records are, and
\* the player columns of a row are missing or those of a player who has the
\* record's name as name or nickname.
C30_MergeKeepsRecordRows ==
  BothSheetsHaveRows =>
    /\ merged.raised = ""
    /\ Len(merged.rows) = Len(record_df)
    /\ \A i \in 1..Len(record_df) :
         /\ merged.rows[i].player_name = record_df[i].player_name
         /\ \/ merged.rows[i].TwitterID = NA
            \/ \E j \in PlayersNamed(record_df[i].player_name)
                          \cup PlayersNicknamed(record_df[i].player_name) :
                 merged.rows[i].TwitterID = player_df[j].TwitterID

====
